---- MODULE Spec2Model ----
(***************************************************************************)
(* Model of the epoll() poller of src/src/ev_epoll.c: the four interest    *)
(* bitsets, the bit accessors, and epoll_poll() (reconciliation of the     *)
(* desired bitsets against the previous ones through epoll_ctl(), then     *)
(* epoll_wait() and the dispatch of the per-direction callbacks).          *)
(*                                                                         *)
(* The fd table (fdtab[].state, the callbacks), maxfd and the kernel's     *)
(* epoll set are external to the file; they are modelled by environment    *)
(* actions and by the kernel operators below.                              *)
(***************************************************************************)
EXTENDS Integers, Sequences, FiniteSets

(* ---- bounds -------------------------------------------------------- *)

\* global.maxsock: descriptors are 0 .. MaxSock-1
MaxSock == 3
\* accessor / owner calls made outside and inside callbacks, in total
MaxOps == 3
\* number of epoll_poll() calls
MaxPolls == 2
\* largest value epoll_wait() returns
MaxEvents == 2
\* number of epoll_register / epoll_init / epoll_term calls
MaxLife == 4
\* the process has descriptors 0 .. MaxKfd
MaxKfd == 1

(* ---- program constants --------------------------------------------- *)

\* log2 of the number of descriptors per bitset word.  The build uses 5
\* (32-bit words); the model scales the word down to 2 descriptors so that
\* a few descriptors already span several words.
INTBITS == 1
WordBits == 2 ^ INTBITS

DIR_RD == 0
DIR_WR == 1
Dirs == {DIR_RD, DIR_WR}

EPOLLIN == "EPOLLIN"
EPOLLOUT == "EPOLLOUT"
EPOLLERR == "EPOLLERR"
EPOLLHUP == "EPOLLHUP"
EvFlags == {EPOLLIN, EPOLLOUT, EPOLLERR, EPOLLHUP}

FD_STCLOSE == "FD_STCLOSE"
FD_STREADY == "FD_STREADY"

Fds == 0 .. (MaxSock - 1)

VARIABLES
    StaticReadEvent,   \* desired read interest: set of fds whose bit is set
    StaticWriteEvent,  \* desired write interest
    PrevReadEvent,     \* read interest as of the last reconciliation
    PrevWriteEvent,    \* write interest as of the last reconciliation
    maxfd,             \* external: highest descriptor in use + 1
    fdtab,             \* external: fd -> lifecycle state
    epoll_set,         \* kernel: fd -> [reg, events], the epoll interest list
    pc,                \* "idle" | "wait" | "rd" | "wr": position inside epoll_poll
    status,            \* return value of epoll_wait
    count,             \* index of the event record being dispatched
    cur,               \* epoll_events[count]: [fd, events]
    ret,               \* return value of the last accessor call
    ctl_calls,         \* epoll_ctl calls issued by the reconciliation just done
    cb_calls,          \* callbacks invoked for the record being dispatched
    ctl_failed,        \* some epoll_ctl call has failed so far
    dirty,             \* an accessor was called since the last reconciliation
    last_maxfd,        \* maxfd at the last reconciliation
    clo_seen,          \* fd -> 0 | 1 (__fd_clo called, no interest set since)
                       \*          | 2 (same, and fd was registered RD+WR)
    pre,               \* PrevReadEvent, PrevWriteEvent on entry of the
                       \* reconciliation just done
    quiet,             \* the reconciliation just done is a repeat: 0 no,
                       \* 1 no bit changed since the one before and maxfd was
                       \* raised, 2 no bit changed and maxfd was not raised
    last_call,         \* the accessor the application called last, if the
                       \* last step is such a call
    cb_flipped,        \* desired bits <<fd, dir>> that callbacks of the latest
                       \* dispatch changed and nothing has changed back since
    strict,            \* assumption on the environment, fixed for a run: the
                       \* owner always runs the closed hook when it closes
                       \* a descriptor, and the kernel never lacks resources
    nops, npolls,      \* budget counters
    pref,              \* p->pref of the poller record
    epoll_fd,          \* the static int epoll_fd
    mem,               \* pointer -> "NULL" | "live" (points to an allocated
                       \* block) | "freed" (points to a block already freed)
    kfds,              \* the process's descriptors: number -> "free" |
                       \* "epoll" (the object made by epoll_create) | "other"
    acquired,          \* resources acquired by the last epoll_init, in order
    released,          \* free()/close() calls of the last epoll_init or
                       \* epoll_term that acted on something, in order:
                       \* [res, held] with held = the poller held it
    life_op,           \* the last lifecycle call: [op, step, ret]
    crashed,           \* the process was aborted by the allocator
    nlife              \* budget counter

corevars == << StaticReadEvent, StaticWriteEvent, PrevReadEvent, PrevWriteEvent,
               maxfd, fdtab, epoll_set, pc, status, count, cur, ret,
               ctl_calls, cb_calls, ctl_failed, dirty, last_maxfd, clo_seen,
               pre, quiet, last_call, cb_flipped, strict,
               nops, npolls >>

lifevars == << pref, epoll_fd, mem, kfds, acquired, released, life_op,
               crashed, nlife >>

vars == << corevars, lifevars >>

bits == << StaticReadEvent, StaticWriteEvent, PrevReadEvent, PrevWriteEvent >>
pollvars == << pc, status, count, cur, ctl_calls, cb_calls >>

NoReg == [reg |-> FALSE, events |-> {}]
NoRec == [fd |-> 0, events |-> {}]
NoPre == [pr |-> {}, pw |-> {}]
NoCall == [op |-> "none", fd |-> 0, dir |-> 0]

(* ---- bit accessors (lines 50-125) ----------------------------------- *)

\* the "ev" pointer selected by dir
Ev(dir) == IF dir = DIR_RD THEN StaticReadEvent ELSE StaticWriteEvent

FD_ISSET(fd, ev) == fd \in ev
FD_SET(fd, ev) == ev \cup {fd}
FD_CLR(fd, ev) == ev \ {fd}

\* assignment of a new value to the bitset selected by dir
StoreEv(dir, new) ==
    IF dir = DIR_RD
    THEN StaticReadEvent' = new /\ UNCHANGED StaticWriteEvent
    ELSE StaticWriteEvent' = new /\ UNCHANGED StaticReadEvent

\* the effect of each accessor on the bitsets and on ret
fd_isset(fd, dir) ==
    /\ ret' = IF FD_ISSET(fd, Ev(dir)) THEN 1 ELSE 0
    /\ UNCHANGED bits

\* mutant: the previous bit is set along with the desired one
fd_set_AlsoPrev(fd, dir) ==
    /\ StoreEv(dir, FD_SET(fd, Ev(dir)))
    /\ IF dir = DIR_RD
       THEN PrevReadEvent' = FD_SET(fd, PrevReadEvent) /\ UNCHANGED PrevWriteEvent
       ELSE PrevWriteEvent' = FD_SET(fd, PrevWriteEvent) /\ UNCHANGED PrevReadEvent
    /\ UNCHANGED ret

fd_set(fd, dir) ==
    /\ StoreEv(dir, FD_SET(fd, Ev(dir)))
    /\ UNCHANGED << PrevReadEvent, PrevWriteEvent, ret >>

\* mutant: the bit of both directions is cleared
fd_clr_BothDirs(fd, dir) ==
    /\ StaticReadEvent' = FD_CLR(fd, StaticReadEvent)
    /\ StaticWriteEvent' = FD_CLR(fd, StaticWriteEvent)
    /\ UNCHANGED << PrevReadEvent, PrevWriteEvent, ret >>

fd_clr(fd, dir) ==
    /\ StoreEv(dir, FD_CLR(fd, Ev(dir)))
    /\ UNCHANGED << PrevReadEvent, PrevWriteEvent, ret >>

\* mutant: the test of line 92 loses its negation in the return value
fd_cond_s_RetIsset(fd, dir) ==
    /\ ret' = IF FD_ISSET(fd, Ev(dir)) THEN 1 ELSE 0
    /\ IF ~FD_ISSET(fd, Ev(dir))
       THEN StoreEv(dir, FD_SET(fd, Ev(dir)))
       ELSE UNCHANGED << StaticReadEvent, StaticWriteEvent >>
    /\ UNCHANGED << PrevReadEvent, PrevWriteEvent >>

fd_cond_s(fd, dir) ==
    /\ ret' = IF ~FD_ISSET(fd, Ev(dir)) THEN 1 ELSE 0
    /\ IF ~FD_ISSET(fd, Ev(dir))
       THEN StoreEv(dir, FD_SET(fd, Ev(dir)))
       ELSE UNCHANGED << StaticReadEvent, StaticWriteEvent >>
    /\ UNCHANGED << PrevReadEvent, PrevWriteEvent >>

fd_cond_c(fd, dir) ==
    /\ ret' = IF FD_ISSET(fd, Ev(dir)) THEN 1 ELSE 0
    /\ IF FD_ISSET(fd, Ev(dir))
       THEN StoreEv(dir, FD_CLR(fd, Ev(dir)))
       ELSE UNCHANGED << StaticReadEvent, StaticWriteEvent >>
    /\ UNCHANGED << PrevReadEvent, PrevWriteEvent >>

fd_rem(fd) ==
    /\ StaticReadEvent' = FD_CLR(fd, StaticReadEvent)
    /\ StaticWriteEvent' = FD_CLR(fd, StaticWriteEvent)
    /\ UNCHANGED << PrevReadEvent, PrevWriteEvent, ret >>

\* mutant: the closed hook forgets the previous bitsets
fd_clo_DesiredOnly(fd) ==
    /\ StaticReadEvent' = FD_CLR(fd, StaticReadEvent)
    /\ StaticWriteEvent' = FD_CLR(fd, StaticWriteEvent)
    /\ UNCHANGED << PrevReadEvent, PrevWriteEvent, ret >>

fd_clo(fd) ==
    /\ StaticReadEvent' = FD_CLR(fd, StaticReadEvent)
    /\ StaticWriteEvent' = FD_CLR(fd, StaticWriteEvent)
    /\ PrevReadEvent' = FD_CLR(fd, PrevReadEvent)
    /\ PrevWriteEvent' = FD_CLR(fd, PrevWriteEvent)
    /\ UNCHANGED ret

(* ---- external owner of the descriptors ------------------------------- *)

\* the owner closes fd: the slot is marked FD_STCLOSE and the kernel drops
\* the descriptor from the epoll set
owner_close(fd) ==
    /\ fdtab' = [fdtab EXCEPT ![fd] = FD_STCLOSE]
    /\ epoll_set' = [epoll_set EXCEPT ![fd] = NoReg]

\* the descriptor number is handed out again
owner_open(fd) ==
    /\ fdtab[fd] = FD_STCLOSE
    /\ fdtab' = [fdtab EXCEPT ![fd] = FD_STREADY]
    /\ UNCHANGED epoll_set

(* ---- bookkeeping of the calls (history variables) --------------------- *)

Ghost(op, fd) ==
    /\ nops' = nops + 1
    /\ dirty' = (dirty \/ (bits' # bits))
    /\ LET flipped == {b \in {fd} \X Dirs :
                         (fd \in Ev(b[2])) # (fd \in Ev(b[2])')}
       IN cb_flipped' = IF pc = "idle" THEN cb_flipped \ flipped
                        ELSE (cb_flipped \ flipped) \cup (flipped \ cb_flipped)
    /\ clo_seen' = [clo_seen EXCEPT ![fd] =
                      CASE op = "clo" ->
                             IF fd \in PrevReadEvent /\ fd \in PrevWriteEvent
                             THEN 2 ELSE IF @ = 2 THEN 2 ELSE 1
                        [] op \in {"set", "cond_s"} -> 0
                        [] OTHER -> @]

\* a call of one of the accessors, from the application or from a callback
Accessor(op, fd, dir) ==
    /\ nops < MaxOps
    /\ CASE op = "isset" -> fd_isset(fd, dir)
         [] op = "set" -> fd_set(fd, dir)
         [] op = "clr" -> fd_clr(fd, dir)
         [] op = "cond_s" -> fd_cond_s(fd, dir)
         [] op = "cond_c" -> fd_cond_c(fd, dir)
         [] op = "rem" -> fd_rem(fd)
         [] op = "clo" -> fd_clo(fd)
    /\ Ghost(op, fd)
    /\ UNCHANGED << maxfd, fdtab, epoll_set >>

\* an act of the owner of the descriptors: close(fd), the same preceded by
\* the closed hook (the owner's delete routine), reuse of fd, a new maxfd
Owner(op, fd, n) ==
    /\ nops < MaxOps
    /\ CASE op = "close" -> owner_close(fd) /\ UNCHANGED << bits, ret, maxfd >>
         [] op = "delete" -> fd_clo(fd) /\ owner_close(fd) /\ UNCHANGED maxfd
         [] op = "open" -> owner_open(fd) /\ UNCHANGED << bits, ret, maxfd >>
         [] op = "maxfd" -> /\ n # maxfd
                            /\ maxfd' = n
                            /\ UNCHANGED << bits, ret, fdtab, epoll_set >>
    /\ Ghost(IF op = "delete" THEN "clo" ELSE op, fd)

DirOps == {"isset", "set", "clr", "cond_s", "cond_c"}

\* what a callback may do before it returns: nothing, or one call that
\* changes the interest in, or closes, some descriptor
CbBody ==
    \/ UNCHANGED << bits, ret, maxfd, fdtab, epoll_set, nops, dirty, clo_seen,
                    cb_flipped >>
    \/ \E fd \in Fds :
         \/ \E op \in {"set", "clr"}, dir \in Dirs : Accessor(op, fd, dir)
         \/ Accessor("clo", fd, DIR_RD)
         \/ \E op \in (IF strict THEN {"delete"} ELSE {"close", "delete"}) :
              Owner(op, fd, maxfd)

(* ---- the kernel ------------------------------------------------------- *)

EPOLL_CTL_ADD == "EPOLL_CTL_ADD"
EPOLL_CTL_MOD == "EPOLL_CTL_MOD"
EPOLL_CTL_DEL == "EPOLL_CTL_DEL"

\* epoll_ctl(epoll_fd, op, fd, &ev) on the epoll set kern.  The call fails on
\* a closed descriptor (EBADF), on ADD of a registered one (EEXIST), on MOD or
\* DEL of an unregistered one (ENOENT), or for lack of resources (spurious).
epoll_ctl_ok(kern, op, fd, spurious) ==
    /\ ~spurious
    /\ fdtab[fd] # FD_STCLOSE
    /\ (op = EPOLL_CTL_ADD) => ~kern[fd].reg
    /\ (op # EPOLL_CTL_ADD) => kern[fd].reg

epoll_ctl(kern, op, fd, events, spurious) ==
    IF ~epoll_ctl_ok(kern, op, fd, spurious) THEN kern
    ELSE IF op = EPOLL_CTL_DEL THEN [kern EXCEPT ![fd] = NoReg]
    ELSE [kern EXCEPT ![fd] = [reg |-> TRUE, events |-> events]]

(* ---- epoll_poll, reconciliation (lines 223-302) ----------------------- *)

\* ((int*)ev)[fds]: the bits of word fds
Word(ev, fds) == {fd \in ev : fd \div WordBits = fds}
\* ((int*)ev)[fds] = w
SetWord(ev, fds, w) == {fd \in ev : fd \div WordBits # fds} \cup w
\* (w >> count) & 1, for the word of index fds
Bit(w, fds, cnt) == (fds * WordBits + cnt) \in w

\* mutant: the two event flags are exchanged
EventsOf_Swapped(sr, sw) ==
    (IF sr THEN {EPOLLOUT} ELSE {}) \cup (IF sw THEN {EPOLLIN} ELSE {})

\* ev.events (line 254)
EventsOf(sr, sw) ==
    (IF sr THEN {EPOLLIN} ELSE {}) \cup (IF sw THEN {EPOLLOUT} ELSE {})

\* mutant: the DEL is issued whatever the state of the descriptor
CtlOp_NoStateCheck(pr, pw, sr, sw, state) ==
    IF ~((sr # pr) \/ (sw # pw)) THEN "none"
    ELSE IF pr \/ pw
         THEN IF sr \/ sw THEN EPOLL_CTL_MOD ELSE EPOLL_CTL_DEL
         ELSE EPOLL_CTL_ADD

\* mutant: the test of line 251 is lost, unchanged descriptors of a changed
\* word are registered again
CtlOp_NoSkip(pr, pw, sr, sw, state) ==
    IF pr \/ pw
    THEN IF sr \/ sw THEN EPOLL_CTL_MOD
         ELSE IF state # FD_STCLOSE THEN EPOLL_CTL_DEL ELSE "none"
    ELSE IF sr \/ sw THEN EPOLL_CTL_ADD ELSE "none"

\* the decision of lines 251-296: the epoll_ctl operation, or "none"
CtlOp(pr, pw, sr, sw, state) ==
    IF ~((sr # pr) \/ (sw # pw)) THEN "none"
    ELSE IF pr \/ pw
         THEN IF sr \/ sw THEN EPOLL_CTL_MOD
              ELSE IF state # FD_STCLOSE THEN EPOLL_CTL_DEL ELSE "none"
         ELSE EPOLL_CTL_ADD

\* one epoll_ctl call: the kernel acts and the call is recorded
DoCtl(acc, op, fd, events, fail) ==
    [acc EXCEPT
       !.kern = epoll_ctl(acc.kern, op, fd, events, fd \in fail),
       !.calls = Append(@, [op |-> op, fd |-> fd, events |-> events,
                            ok |-> epoll_ctl_ok(acc.kern, op, fd, fd \in fail)])]

\* the loop of line 229 from (count, fd) on, over the words read at line 225
RECURSIVE InnerLoop(_, _, _, _, _, _, _, _)
InnerLoop(fds, cnt, rn, ro, wn, wo, acc, fail) ==
    LET fd == fds * WordBits + cnt
        pr == Bit(ro, fds, cnt)
        pw == Bit(wo, fds, cnt)
        sr == Bit(rn, fds, cnt)
        sw == Bit(wn, fds, cnt)
        op == CtlOp(pr, pw, sr, sw, fdtab[fd])
    IN IF ~(cnt < WordBits /\ fd < maxfd) THEN acc
       ELSE InnerLoop(fds, cnt + 1, rn, ro, wn, wo,
                      IF op = "none" THEN acc
                      ELSE DoCtl(acc, op, fd, EventsOf(sr, sw), fail),
                      fail)

\* mutant: lines 299-300 are lost, the previous words are never updated
Chunk_NoCopy(fds, acc, fail) ==
    LET rn == Word(StaticReadEvent, fds)
        ro == Word(acc.pr, fds)
        wn == Word(StaticWriteEvent, fds)
        wo == Word(acc.pw, fds)
    IN IF (ro # rn) \/ (wo # wn)
       THEN InnerLoop(fds, 0, rn, ro, wn, wo, acc, fail)
       ELSE acc

\* mutant: a failed call ends the pass, the words after it are not reconciled
Chunk_AbortOnFail(fds, acc, fail) ==
    LET rn == Word(StaticReadEvent, fds)
        ro == Word(acc.pr, fds)
        wn == Word(StaticWriteEvent, fds)
        wo == Word(acc.pw, fds)
    IN IF \E i \in 1 .. Len(acc.calls) : ~acc.calls[i].ok THEN acc
       ELSE IF (ro # rn) \/ (wo # wn)
       THEN [InnerLoop(fds, 0, rn, ro, wn, wo, acc, fail) EXCEPT
               !.pr = SetWord(@, fds, rn),
               !.pw = SetWord(@, fds, wn)]
       ELSE acc

\* one iteration of the loop of line 223
Chunk(fds, acc, fail) ==
    LET rn == Word(StaticReadEvent, fds)
        ro == Word(acc.pr, fds)
        wn == Word(StaticWriteEvent, fds)
        wo == Word(acc.pw, fds)
    IN IF (ro # rn) \/ (wo # wn)
       THEN [InnerLoop(fds, 0, rn, ro, wn, wo, acc, fail) EXCEPT
               !.pr = SetWord(@, fds, rn),
               !.pw = SetWord(@, fds, wn)]
       ELSE acc

RECURSIVE OuterLoop(_, _, _)
OuterLoop(fds, acc, fail) ==
    IF ~(fds * WordBits < maxfd) THEN acc
    ELSE OuterLoop(fds + 1, Chunk(fds, acc, fail), fail)

Reconciled(fail) ==
    OuterLoop(0, [kern |-> epoll_set, calls |-> << >>,
                  pr |-> PrevReadEvent, pw |-> PrevWriteEvent], fail)

(* ---- the application, between two polls -------------------------------- *)

IdleFrame(op, fd, dir) ==
    /\ last_call' = [op |-> op, fd |-> fd, dir |-> dir]
    /\ UNCHANGED << pollvars, ctl_failed, last_maxfd, npolls, pre, quiet,
                    strict >>
    /\ UNCHANGED lifevars

FdIsset(fd, dir) ==
    pc = "idle" /\ Accessor("isset", fd, dir) /\ IdleFrame("isset", fd, dir)
FdSet(fd, dir) ==
    pc = "idle" /\ Accessor("set", fd, dir) /\ IdleFrame("set", fd, dir)
FdClr(fd, dir) ==
    pc = "idle" /\ Accessor("clr", fd, dir) /\ IdleFrame("clr", fd, dir)
FdCondS(fd, dir) ==
    pc = "idle" /\ Accessor("cond_s", fd, dir) /\ IdleFrame("cond_s", fd, dir)
FdCondC(fd, dir) ==
    pc = "idle" /\ Accessor("cond_c", fd, dir) /\ IdleFrame("cond_c", fd, dir)
FdRem(fd) ==
    pc = "idle" /\ Accessor("rem", fd, DIR_RD) /\ IdleFrame("rem", fd, DIR_RD)
FdClo(fd) ==
    pc = "idle" /\ Accessor("clo", fd, DIR_RD) /\ IdleFrame("clo", fd, DIR_RD)

OwnerClose(fd) ==
    pc = "idle" /\ Owner("close", fd, maxfd) /\ IdleFrame("none", 0, 0)
OwnerDelete(fd) ==
    pc = "idle" /\ Owner("delete", fd, maxfd) /\ IdleFrame("none", 0, 0)
OwnerOpen(fd) ==
    pc = "idle" /\ Owner("open", fd, maxfd) /\ IdleFrame("none", 0, 0)
SetMaxfd(n) ==
    pc = "idle" /\ Owner("maxfd", 0, n) /\ IdleFrame("none", 0, 0)

(* ---- epoll_poll ---------------------------------------------------------- *)

\* lines 223-302: the whole reconciliation; fail is the set of descriptors on
\* which the kernel refuses the call for lack of resources
PollReconcile ==
    /\ pc = "idle"
    /\ npolls < MaxPolls
    /\ \E fail \in (IF strict THEN {{}} ELSE SUBSET (0 .. (maxfd - 1))) :
         LET acc == Reconciled(fail)
         IN /\ epoll_set' = acc.kern
            /\ ctl_calls' = acc.calls
            /\ PrevReadEvent' = acc.pr
            /\ PrevWriteEvent' = acc.pw
            /\ ctl_failed' = (ctl_failed \/
                                \E i \in 1 .. Len(acc.calls) : ~acc.calls[i].ok)
    /\ pc' = "wait"
    /\ cb_calls' = << >>
    /\ dirty' = FALSE
    /\ last_maxfd' = maxfd
    /\ pre' = [pr |-> PrevReadEvent, pw |-> PrevWriteEvent]
    /\ quiet' = IF npolls = 0 \/ dirty THEN 0
                ELSE IF maxfd > last_maxfd THEN 1 ELSE 2
    /\ last_call' = NoCall
    /\ npolls' = npolls + 1
    /\ UNCHANGED << StaticReadEvent, StaticWriteEvent, maxfd, fdtab, status,
                    count, cur, ret, clo_seen, nops, cb_flipped, strict >>
    /\ UNCHANGED lifevars

\* line 305: epoll_wait returns -1 or the number of records it stored
EpollWait ==
    /\ pc = "wait"
    /\ \E n \in -1 .. MaxEvents :
         /\ n <= maxfd
         /\ status' = n
    /\ count' = 0
    /\ pc' = "rd"
    /\ ctl_calls' = << >> /\ pre' = NoPre /\ quiet' = 0
    /\ cb_flipped' = {}
    /\ UNCHANGED << last_call, bits, maxfd, fdtab, epoll_set, cur, ret,
                    cb_calls, ctl_failed, dirty, last_maxfd, clo_seen, nops,
                    npolls, strict >>
    /\ UNCHANGED lifevars

\* mutants: a flag too many on the read side, the hangup lost on the write side
RdMask_WithOut == {EPOLLIN, EPOLLOUT, EPOLLERR, EPOLLHUP}
WrMask_NoHup == {EPOLLOUT, EPOLLERR}

\* the masks tested at lines 314 and 321
RdMask == {EPOLLIN, EPOLLERR, EPOLLHUP}
WrMask == {EPOLLOUT, EPOLLERR, EPOLLHUP}

\* fdtab[fd].cb[dir].f(fd): the call is recorded and the callback runs
Callback(fd, dir) ==
    /\ cb_calls' = Append(IF dir = DIR_RD THEN << >> ELSE cb_calls,
                          [count |-> count, fd |-> fd, dir |-> dir])
    /\ CbBody

NoCallback(dir) ==
    /\ cb_calls' = IF dir = DIR_RD THEN << >> ELSE cb_calls
    /\ UNCHANGED << bits, ret, maxfd, fdtab, epoll_set, nops, dirty, clo_seen,
                    cb_flipped >>

\* what the kernel may have stored in one record of epoll_events
\* (the masks are those that differ in the tests of lines 314 and 321)
EvMasks == {{EPOLLIN}, {EPOLLOUT}, {EPOLLERR}, {EPOLLHUP}, {EPOLLIN, EPOLLOUT}}
Records == [fd : Fds, events : EvMasks]

\* lines 309-316: the record of index count is read, read side
DispatchRd ==
    /\ pc = "rd"
    /\ count < status
    /\ \E rec \in Records :
         /\ cur' = rec
         /\ IF FD_ISSET(rec.fd, StaticReadEvent)
            THEN IF fdtab[rec.fd] = FD_STCLOSE
                 THEN /\ NoCallback(DIR_RD)                 \* continue
                      /\ count' = count + 1
                      /\ pc' = "rd"
                 ELSE /\ IF rec.events \cap RdMask # {}
                         THEN Callback(rec.fd, DIR_RD)
                         ELSE NoCallback(DIR_RD)
                      /\ pc' = "wr"
                      /\ UNCHANGED count
            ELSE /\ NoCallback(DIR_RD)
                 /\ pc' = "wr"
                 /\ UNCHANGED count
    /\ UNCHANGED << status, ctl_calls, ctl_failed, last_maxfd, npolls, pre,
                    quiet, last_call, strict >>
    /\ UNCHANGED lifevars

\* mutant: the state test of line 319 is lost
DispatchWr_NoStateCheck ==
    /\ pc = "wr"
    /\ IF FD_ISSET(cur.fd, StaticWriteEvent)
       THEN IF cur.events \cap WrMask # {}
            THEN Callback(cur.fd, DIR_WR)
            ELSE NoCallback(DIR_WR)
       ELSE NoCallback(DIR_WR)
    /\ count' = count + 1
    /\ pc' = "rd"
    /\ UNCHANGED << status, cur, ctl_calls, ctl_failed, last_maxfd, npolls,
                    pre, quiet, last_call, strict >>
    /\ UNCHANGED lifevars

\* lines 318-323: write side of the same record
DispatchWr ==
    /\ pc = "wr"
    /\ IF FD_ISSET(cur.fd, StaticWriteEvent)
       THEN IF fdtab[cur.fd] = FD_STCLOSE
            THEN NoCallback(DIR_WR)                         \* continue
            ELSE IF cur.events \cap WrMask # {}
                 THEN Callback(cur.fd, DIR_WR)
                 ELSE NoCallback(DIR_WR)
       ELSE NoCallback(DIR_WR)
    /\ count' = count + 1
    /\ pc' = "rd"
    /\ UNCHANGED << status, cur, ctl_calls, ctl_failed, last_maxfd, npolls,
                    pre, quiet, last_call, strict >>
    /\ UNCHANGED lifevars

\* line 308, loop exit, and line 325
PollReturn ==
    /\ pc = "rd"
    /\ ~(count < status)
    /\ pc' = "idle"
    /\ status' = 0 /\ count' = 0 /\ cur' = NoRec
    /\ cb_calls' = << >>
    /\ UNCHANGED << ctl_calls, pre, quiet, last_call, bits, maxfd, fdtab,
                    epoll_set, ret, ctl_failed, dirty, last_maxfd, clo_seen,
                    nops, npolls, cb_flipped, strict >>
    /\ UNCHANGED lifevars

(* ---- epoll_register, epoll_init, epoll_term (lines 134-208, 330-347) ---- *)

Bitsets == {"PrevReadEvent", "PrevWriteEvent",
            "StaticReadEvent", "StaticWriteEvent"}
Pointers == {"epoll_events"} \cup Bitsets

\* the acquisitions of epoll_init, in the order of lines 142-161
AcqOrder == << "epoll_fd", "epoll_events", "PrevReadEvent", "PrevWriteEvent",
               "StaticReadEvent", "StaticWriteEvent" >>
NSteps == Len(AcqOrder)

\* the releases of lines 166-175, in the order of the labels
CleanupChain == << "StaticReadEvent", "PrevWriteEvent", "PrevReadEvent",
                   "epoll_events", "epoll_fd" >>

\* the releases of epoll_term, lines 188-201
TermOrder == << "StaticWriteEvent", "StaticReadEvent", "PrevWriteEvent",
                "PrevReadEvent", "epoll_events" >>

NoLife == [op |-> "none", step |-> 0, ret |-> 0]

\* what the poller holds: the blocks its pointers point to, its epoll object
Held ==
    {p \in Pointers : mem[p] = "live"}
      \cup (IF \E n \in DOMAIN kfds : kfds[n] = "epoll" THEN {"epoll_fd"} ELSE {})

\* free(p) on the heap record h.  free(NULL) does nothing; free of a block
\* already freed is a double free, recorded with held = FALSE
free(h, p) ==
    IF h.mem[p] = "NULL" THEN h
    ELSE [h EXCEPT !.mem[p] = "freed",
                   !.rel = Append(@, [res |-> p, held |-> h.mem[p] = "live"])]

\* close(n): EBADF, and no effect, when n is not an open descriptor
close(h, n) ==
    IF n \in DOMAIN h.kfds /\ h.kfds[n] # "free"
    THEN [h EXCEPT !.kfds[n] = "free",
                   !.rel = Append(@, [res |-> "epoll_fd",
                                      held |-> h.kfds[n] = "epoll"])]
    ELSE h

\* release of one resource of the cleanup chain
Release(h, r) == IF r = "epoll_fd" THEN close(h, h.fd) ELSE free(h, r)

\* the chain of lines 166-175 entered at label i (NSteps: past the last one)
RECURSIVE RunCleanup(_, _)
RunCleanup(h, i) ==
    IF i > Len(CleanupChain) THEN h
    ELSE RunCleanup(Release(h, CleanupChain[i]), i + 1)

\* mutant: the failure of the fifth acquisition jumps one label too far
FailLabel_SkipOne(k) == IF k = 5 THEN 4 ELSE NSteps + 1 - k

\* the label the failure of acquisition k jumps to, as an index of the chain:
\* fail_swevt is 1, ..., fail_ee is 5, fail_fd is past the chain
FailLabel(k) == NSteps + 1 - k

\* epoll_create: the lowest free descriptor number
LowestFree(k) == CHOOSE n \in DOMAIN k : k[n] = "free" /\ \A m \in DOMAIN k : k[m] = "free" => n <= m

\* acquisitions 1 .. n all succeed (lines 142-161)
RECURSIVE Acquire(_, _, _)
Acquire(h, i, n) ==
    IF i > n THEN h
    ELSE Acquire(IF i = 1
                 THEN [h EXCEPT !.fd = LowestFree(h.kfds),
                                !.kfds[LowestFree(h.kfds)] = "epoll",
                                !.acq = Append(@, AcqOrder[i])]
                 ELSE [h EXCEPT !.mem[AcqOrder[i]] = "live",
                                !.acq = Append(@, AcqOrder[i])],
                 i + 1, n)

\* acquisition k fails: epoll_create returns -1, calloc returns NULL
FailAt(h, k) ==
    IF k = 1 THEN [h EXCEPT !.fd = -1]
    ELSE [h EXCEPT !.mem[AcqOrder[k]] = "NULL"]

\* mutant: the record is disabled only when epoll_create itself fails
PrefAfterInit_CreateOnly(k, p) == IF k = 1 THEN 0 ELSE p

\* p->pref on return of epoll_init: line 178 on the failure path only
PrefAfterInit(k, p) == IF k = 0 THEN p ELSE 0

HeapNow == [mem |-> mem, kfds |-> kfds, fd |-> epoll_fd,
            rel |-> << >>, acq |-> << >>]

LifeFrame(op, k, r) ==
    /\ nlife < MaxLife
    /\ ~crashed
    /\ nlife' = nlife + 1
    /\ life_op' = [op |-> op, step |-> k, ret |-> r]

\* lines 330-347
epoll_register ==
    /\ LifeFrame("register", 0, 1)
    /\ pref' = 300
    /\ UNCHANGED << epoll_fd, mem, kfds, acquired, released, crashed >>
    /\ UNCHANGED corevars

\* lines 134-180; k = 0: every acquisition succeeds, k > 0: acquisition k fails
epoll_init(k) ==
    /\ life_op.op # "none"                  \* p->init is set by epoll_register
    /\ Held = {}
    /\ (\A n \in DOMAIN kfds : kfds[n] # "free") => k = 1
    /\ LifeFrame("init", k, IF k = 0 THEN 1 ELSE 0)
    /\ LET got == Acquire(HeapNow, 1, IF k = 0 THEN NSteps ELSE k - 1)
           h == IF k = 0 THEN got
                ELSE RunCleanup(FailAt(got, k), FailLabel(k))
       IN /\ mem' = h.mem
          /\ kfds' = h.kfds
          /\ epoll_fd' = IF k >= 2 THEN 0 ELSE h.fd             \* line 176
          /\ acquired' = h.acq
          /\ released' = h.rel
          \* calloc hands out zeroed bitsets
          /\ StaticReadEvent' = IF "StaticReadEvent" \in Held' THEN {}
                                ELSE StaticReadEvent
          /\ StaticWriteEvent' = IF "StaticWriteEvent" \in Held' THEN {}
                                 ELSE StaticWriteEvent
          /\ PrevReadEvent' = IF "PrevReadEvent" \in Held' THEN {}
                              ELSE PrevReadEvent
          /\ PrevWriteEvent' = IF "PrevWriteEvent" \in Held' THEN {}
                               ELSE PrevWriteEvent
    /\ pref' = PrefAfterInit(k, pref)
    /\ UNCHANGED crashed
    /\ UNCHANGED << maxfd, fdtab, epoll_set, pc, status, count, cur, ret,
                    ctl_calls, cb_calls, ctl_failed, dirty, last_maxfd,
                    clo_seen, pre, quiet, last_call, cb_flipped, strict,
                    nops, npolls >>

\* lines 188-201: each pointer that is not NULL is freed
RECURSIVE TermFrees(_, _)
TermFrees(h, i) ==
    IF i > Len(TermOrder) THEN h
    ELSE TermFrees(IF h.mem[TermOrder[i]] # "NULL"
                   THEN free(h, TermOrder[i]) ELSE h,
                   i + 1)

\* lines 186-208.  A double free is undefined: the allocator aborts the
\* process or lets it run on
epoll_term ==
    /\ life_op.op # "none"                  \* p->term is set by epoll_register
    /\ LifeFrame("term", 0, 0)
    /\ LET h == close(TermFrees(HeapNow, 1), epoll_fd)           \* line 203
       IN /\ mem' = h.mem
          /\ kfds' = h.kfds
          /\ released' = h.rel
          /\ crashed' \in {FALSE} \cup
               {\E i \in 1 .. Len(h.rel) :
                   h.rel[i].res \in Pointers /\ ~h.rel[i].held}
    /\ epoll_fd' = 0
    /\ pref' = 0
    /\ UNCHANGED acquired
    /\ UNCHANGED corevars

(* ---- specification ------------------------------------------------------- *)

\* the bitsets are zeroed (calloc), the epoll set is empty; the owner has the
\* descriptors open and some maxfd
CoreInit ==
    /\ StaticReadEvent = {} /\ StaticWriteEvent = {}
    /\ PrevReadEvent = {} /\ PrevWriteEvent = {}
    /\ maxfd \in 0 .. MaxSock
    /\ fdtab = [fd \in Fds |-> FD_STREADY]
    /\ epoll_set = [fd \in Fds |-> NoReg]
    /\ pc = "idle" /\ status = 0 /\ count = 0 /\ cur = NoRec /\ ret = 0
    /\ ctl_calls = << >> /\ cb_calls = << >>
    /\ ctl_failed = FALSE /\ dirty = TRUE /\ last_maxfd = 0
    /\ clo_seen = [fd \in Fds |-> 0]
    /\ pre = NoPre /\ quiet = 0 /\ last_call = NoCall
    /\ cb_flipped = {}
    /\ nops = 0 /\ npolls = 0

\* epoll_register and epoll_init have succeeded
\* (lifecycle part of the initial state)
LifeInit ==
    /\ pref = 300
    /\ epoll_fd = 1
    /\ mem = [p \in Pointers |-> "live"]
    /\ kfds = [n \in 0 .. MaxKfd |-> IF n = 1 THEN "epoll" ELSE "other"]
    /\ acquired = AcqOrder /\ released = << >>
    /\ life_op = [op |-> "init", step |-> 0, ret |-> 1]
    /\ crashed = FALSE
    /\ nlife = 2

\* any owner, any kernel
Init == CoreInit /\ LifeInit /\ strict = FALSE

Next ==
    \/ \E fd \in Fds, dir \in Dirs : FdIsset(fd, dir)
    \/ \E fd \in Fds, dir \in Dirs : FdSet(fd, dir)
    \/ \E fd \in Fds, dir \in Dirs : FdClr(fd, dir)
    \/ \E fd \in Fds, dir \in Dirs : FdCondS(fd, dir)
    \/ \E fd \in Fds, dir \in Dirs : FdCondC(fd, dir)
    \/ \E fd \in Fds : FdRem(fd)
    \/ \E fd \in Fds : FdClo(fd)
    \/ \E fd \in Fds : OwnerClose(fd)
    \/ \E fd \in Fds : OwnerDelete(fd)
    \/ \E fd \in Fds : OwnerOpen(fd)
    \/ \E n \in 0 .. MaxSock : SetMaxfd(n)
    \/ PollReconcile
    \/ EpollWait
    \/ DispatchRd
    \/ DispatchWr
    \/ PollReturn

Spec == Init /\ [][Next]_vars

\* the same poller with an owner that always runs the closed hook when it
\* closes a descriptor, and a kernel that never lacks resources
InitHooked == CoreInit /\ LifeInit /\ strict = TRUE

NextHooked ==
    \/ \E fd \in Fds, dir \in Dirs : FdIsset(fd, dir)
    \/ \E fd \in Fds, dir \in Dirs : FdSet(fd, dir)
    \/ \E fd \in Fds, dir \in Dirs : FdClr(fd, dir)
    \/ \E fd \in Fds, dir \in Dirs : FdCondS(fd, dir)
    \/ \E fd \in Fds, dir \in Dirs : FdCondC(fd, dir)
    \/ \E fd \in Fds : FdRem(fd)
    \/ \E fd \in Fds : FdClo(fd)
    \/ \E fd \in Fds : OwnerDelete(fd)
    \/ \E fd \in Fds : OwnerOpen(fd)
    \/ \E n \in 0 .. MaxSock : SetMaxfd(n)
    \/ PollReconcile
    \/ EpollWait
    \/ DispatchRd
    \/ DispatchWr
    \/ PollReturn

SpecHooked == InitHooked /\ [][NextHooked]_vars

\* process start: the statics are zero, descriptor 0 belongs to the process,
\* the poller record is not registered yet
InitLife ==
    /\ CoreInit
    /\ strict = FALSE
    /\ maxfd = 0
    /\ pref = 0
    /\ epoll_fd = 0
    /\ mem = [p \in Pointers |-> "NULL"]
    /\ kfds = [n \in 0 .. MaxKfd |-> IF n = 0 THEN "other" ELSE "free"]
    /\ acquired = << >> /\ released = << >>
    /\ life_op = NoLife
    /\ crashed = FALSE
    /\ nlife = 0

NextLife ==
    \/ epoll_register
    \/ \E k \in 0 .. NSteps : epoll_init(k)
    \/ epoll_term

SpecLife == InitLife /\ [][NextLife]_vars

(* ---- notions used by the properties --------------------------------------- *)

\* the calls of a reconciliation that concern descriptor d, in order
CallsFor(calls, d) == SelectSeq(calls, LAMBDA c : c.fd = d)

\* at "wait" the desired bitsets, fdtab and maxfd are those the reconciliation
\* read, and pre holds the previous bitsets it read
DiffersAtEntry(d) ==
    \/ (d \in StaticReadEvent) # (d \in pre.pr)
    \/ (d \in StaticWriteEvent) # (d \in pre.pw)

HadInterest(d) == d \in pre.pr \/ d \in pre.pw
WantsInterest(d) == d \in StaticReadEvent \/ d \in StaticWriteEvent

\* the step invokes a callback for descriptor d
Invokes(d) ==
    /\ cb_calls' # cb_calls
    /\ cb_calls' # << >>
    /\ cb_calls'[Len(cb_calls')].fd = d

(* ---- C1 ------------------------------------------------------------------ *)

\* C1 as stated: a poll that follows another one with no desired or previous
\* bit changed in between issues no registration call at all.
C1_NoCallOnRepeat ==
    (pc = "wait" /\ quiet >= 1) => ctl_calls = << >>

\* C1, amended: a poll that follows another one with no desired or previous
\* bit changed in between, and with maxfd not larger than at the first one,
\* issues no registration call at all.
C1_NoCallOnRepeatSameMaxfd ==
    (pc = "wait" /\ quiet = 2) => ctl_calls = << >>

\* a repeat poll after a poll that registered descriptor 0 and 1
C1_Witness ==
    /\ pc = "wait" /\ quiet = 2
    /\ maxfd >= 2
    /\ 0 \in PrevReadEvent /\ epoll_set[0].reg
    /\ 1 \in PrevWriteEvent /\ epoll_set[1].reg

(* ---- C2 ------------------------------------------------------------------ *)

\* C2: when exactly one descriptor k < maxfd has a desired interest that
\* differs from its previous interest on entry of poll, the reconciliation
\* issues at most one registration call, and none for a descriptor other
\* than k.
C2_DiffMinimal ==
    pc = "wait" =>
      \A k \in Fds :
        (k < maxfd /\ {d \in Fds : DiffersAtEntry(d)} = {k}) =>
          /\ Len(ctl_calls) <= 1
          /\ \A i \in 1 .. Len(ctl_calls) : ctl_calls[i].fd = k

\* descriptor 1 alone changed, while descriptor 0 of the same word and
\* descriptor 2 of the next word keep a registered interest
C2_Witness ==
    /\ pc = "wait" /\ maxfd = 3
    /\ {d \in Fds : DiffersAtEntry(d)} = {1}
    /\ 0 \in pre.pr /\ 2 \in pre.pr
    /\ Len(ctl_calls) = 1 /\ ctl_calls[1].fd = 1

(* ---- C3 ------------------------------------------------------------------ *)

\* C3: for every open descriptor d < maxfd whose desired interest differs from
\* its previous interest on entry, the reconciliation issues exactly one call
\* for d: ADD when d had no previous interest, MOD when it had some and still
\* wants some, DEL when it had some and wants none; the mask of ADD and MOD
\* has EPOLLIN iff desired-read is set and EPOLLOUT iff desired-write is set.
C3_OperationChoice ==
    pc = "wait" =>
      \A d \in Fds :
        (d < maxfd /\ fdtab[d] # FD_STCLOSE /\ DiffersAtEntry(d)) =>
          LET cs == CallsFor(ctl_calls, d)
          IN /\ Len(cs) = 1
             /\ cs[1].op = IF ~HadInterest(d) THEN EPOLL_CTL_ADD
                           ELSE IF WantsInterest(d) THEN EPOLL_CTL_MOD
                           ELSE EPOLL_CTL_DEL
             /\ cs[1].op # EPOLL_CTL_DEL =>
                  /\ (EPOLLIN \in cs[1].events) <=> (d \in StaticReadEvent)
                  /\ (EPOLLOUT \in cs[1].events) <=> (d \in StaticWriteEvent)
                  /\ cs[1].events \subseteq {EPOLLIN, EPOLLOUT}

\* remove(d) after set(d, Read) and a poll: the next poll issues one DEL, which
\* the kernel accepts because the earlier poll added d with a read-only mask
C3_Witness ==
    /\ pc = "wait"
    /\ \E d \in Fds :
         /\ pre.pr = {d} /\ pre.pw = {}
         /\ last_call = NoCall
         /\ Len(ctl_calls) = 1
         /\ ctl_calls[1].op = EPOLL_CTL_DEL /\ ctl_calls[1].fd = d
         /\ ctl_calls[1].ok

(* ---- C4 ------------------------------------------------------------------ *)

\* C4: once the closed hook has run for d, and as long as no accessor sets an
\* interest on d again, no reconciliation issues a registration call for d
\* (no DEL in particular) and no callback of d is invoked, whatever record the
\* kernel wait returned for d.
C4_ClosedSuppressed ==
    [][\A d \in Fds :
         clo_seen[d] >= 1 =>
           /\ ~Invokes(d)
           /\ (pc = "idle" /\ pc' = "wait") => CallsFor(ctl_calls', d) = << >>
      ]_vars

\* a later poll dispatches a stale record of a descriptor that was registered
\* for read and write when the closed hook ran: no callback was invoked
C4_Witness ==
    /\ pc = "wr" /\ npolls = 2
    /\ clo_seen[cur.fd] = 2
    /\ cur.events = {EPOLLIN, EPOLLOUT}
    /\ cb_calls = << >>

(* ---- C5 ------------------------------------------------------------------ *)

OnlyErrOrHup(m) == m = {EPOLLHUP} \/ m = {EPOLLERR}
RdCall(fd) == [count |-> count, fd |-> fd, dir |-> DIR_RD]
WrCall(fd) == [count |-> count, fd |-> fd, dir |-> DIR_WR]

\* C6: for a record that carries only EPOLLHUP or only EPOLLERR, of an open
\* descriptor with desired-read and desired-write both set, the read callback
\* is invoked once, and then, if the descriptor is still open and its
\* desired-write bit still set, the write callback is invoked once.
C6_DualDispatch ==
    [][/\ (/\ pc = "rd" /\ count < status
           /\ OnlyErrOrHup(cur'.events)
           /\ fdtab[cur'.fd] # FD_STCLOSE
           /\ cur'.fd \in StaticReadEvent /\ cur'.fd \in StaticWriteEvent)
          => (cb_calls' = << RdCall(cur'.fd) >> /\ pc' = "wr")
       /\ (/\ pc = "wr"
           /\ OnlyErrOrHup(cur.events)
           /\ cb_calls = << RdCall(cur.fd) >>
           /\ fdtab[cur.fd] # FD_STCLOSE
           /\ cur.fd \in StaticWriteEvent)
          => cb_calls' = << RdCall(cur.fd), WrCall(cur.fd) >>
      ]_vars

\* a hangup-only record has had its read and then its write callback invoked
C6_Witness ==
    /\ pc = "rd" /\ count = 1
    /\ cur.events = {EPOLLHUP}
    /\ cb_calls = << [count |-> 0, fd |-> cur.fd, dir |-> DIR_RD],
                     [count |-> 0, fd |-> cur.fd, dir |-> DIR_WR] >>

(* ---- C7 ------------------------------------------------------------------ *)

\* C7: for a record of a descriptor that is not FD_STCLOSE when the callback
\* is considered, the read callback is invoked iff desired-read is set and
\* the mask has EPOLLIN, EPOLLERR or EPOLLHUP, and the write callback iff
\* desired-write is set and the mask has EPOLLOUT, EPOLLERR or EPOLLHUP.
C7_DispatchGating ==
    [][/\ (pc = "rd" /\ count < status /\ fdtab[cur'.fd] # FD_STCLOSE) =>
            IF /\ cur'.fd \in StaticReadEvent
               /\ cur'.events \cap {EPOLLIN, EPOLLERR, EPOLLHUP} # {}
            THEN cb_calls' = << RdCall(cur'.fd) >>
            ELSE cb_calls' = << >>
       /\ (pc = "wr" /\ fdtab[cur.fd] # FD_STCLOSE) =>
            IF /\ cur.fd \in StaticWriteEvent
               /\ cur.events \cap {EPOLLOUT, EPOLLERR, EPOLLHUP} # {}
            THEN cb_calls' = Append(cb_calls, WrCall(cur.fd))
            ELSE cb_calls' = cb_calls
      ]_vars

\* a read-ready-only record of a descriptor with both interests set: the read
\* callback alone was invoked
C7_Witness ==
    /\ pc = "rd" /\ count = 1
    /\ cur.events = {EPOLLIN}
    /\ cur.fd \in StaticReadEvent /\ cur.fd \in StaticWriteEvent
    /\ fdtab[cur.fd] # FD_STCLOSE
    /\ cb_calls = << [count |-> 0, fd |-> cur.fd, dir |-> DIR_RD] >>

(* ---- C8 ------------------------------------------------------------------ *)

CondCall(op, fd, dir) == [op |-> op, fd |-> fd, dir |-> dir]

\* C8: __fd_cond_s returns true and leaves the desired bit set when it was
\* clear, and returns false and changes nothing when it was set;
\* __fd_cond_c returns true and leaves the bit clear when it was set, and
\* returns false and changes nothing when it was clear; a conditional call
\* that directly repeats the previous one returns false.  (The conditional
\* accessors are called by the application only; last_call' names the call.)
C8_ConditionalAccessors ==
    [][(nops' # nops /\ last_call'.op \in {"cond_s", "cond_c"}) =>
       \A fd \in {last_call'.fd}, dir \in {last_call'.dir} :
         /\ Accessor("cond_s", fd, dir) =>
              IF fd \notin Ev(dir)
              THEN ret' = 1 /\ fd \in Ev(dir)'
              ELSE ret' = 0 /\ bits' = bits
         /\ Accessor("cond_c", fd, dir) =>
              IF fd \in Ev(dir)
              THEN ret' = 1 /\ fd \notin Ev(dir)'
              ELSE ret' = 0 /\ bits' = bits
         /\ (last_call = CondCall("cond_s", fd, dir) /\ FdCondS(fd, dir)) =>
              (ret' = 0 /\ bits' = bits)
         /\ (last_call = CondCall("cond_c", fd, dir) /\ FdCondC(fd, dir)) =>
              (ret' = 0 /\ bits' = bits)
      ]_vars

\* the second of two calls has been a conditional set of (0, read), which
\* found the bit set by the first one and returned false
C8_Witness ==
    /\ last_call = CondCall("cond_s", 0, DIR_RD)
    /\ ret = 0 /\ nops = 2 /\ npolls = 0
    /\ StaticReadEvent = {0} /\ StaticWriteEvent = {}

(* ---- C9 ------------------------------------------------------------------ *)

\* bit fd apart, the bitset is the same
SameBut(old, new, fd) == new \ {fd} = old \ {fd}

\* the accessor the application calls in the step, if it calls it for
\* (fd, dir); last_call' names the call
StepOps(fd, dir) ==
    IF pc = "idle" /\ last_call'.fd = fd /\ last_call'.dir = dir
    THEN {last_call'.op} ELSE {}

OtherDir(dir) == IF dir = DIR_RD THEN DIR_WR ELSE DIR_RD

\* C9: test, set, clear, conditional set and conditional clear of (d, dir)
\* change at most the desired bit (d, dir); remove(d) changes at most the two
\* desired bits of d; the closed hook changes at most the four bits of d and
\* leaves them clear.  None of them touches a bit of another descriptor, the
\* epoll set, or issues a registration call.
C9_AccessorFrame ==
    [][(nops' # nops /\ pc = "idle") => \A fd \in Fds, dir \in Dirs :
         /\ \A op \in DirOps \cap StepOps(fd, dir) :
              Accessor(op, fd, dir) =>
                /\ SameBut(Ev(dir), Ev(dir)', fd)
                /\ Ev(OtherDir(dir))' = Ev(OtherDir(dir))
                /\ PrevReadEvent' = PrevReadEvent
                /\ PrevWriteEvent' = PrevWriteEvent
                /\ epoll_set' = epoll_set /\ ctl_calls' = ctl_calls
         /\ ("isset" \in StepOps(fd, dir) /\ Accessor("isset", fd, dir))
              => bits' = bits
         /\ ("rem" \in StepOps(fd, dir) /\ Accessor("rem", fd, dir)) =>
              /\ SameBut(StaticReadEvent, StaticReadEvent', fd)
              /\ SameBut(StaticWriteEvent, StaticWriteEvent', fd)
              /\ PrevReadEvent' = PrevReadEvent
              /\ PrevWriteEvent' = PrevWriteEvent
              /\ epoll_set' = epoll_set /\ ctl_calls' = ctl_calls
         /\ ("clo" \in StepOps(fd, dir) /\ Accessor("clo", fd, dir)) =>
              /\ SameBut(StaticReadEvent, StaticReadEvent', fd)
              /\ SameBut(StaticWriteEvent, StaticWriteEvent', fd)
              /\ SameBut(PrevReadEvent, PrevReadEvent', fd)
              /\ SameBut(PrevWriteEvent, PrevWriteEvent', fd)
              /\ fd \notin StaticReadEvent' \cup StaticWriteEvent'
              /\ fd \notin PrevReadEvent' \cup PrevWriteEvent'
              /\ epoll_set' = epoll_set /\ ctl_calls' = ctl_calls
      ]_vars

\* the closed hook has run for descriptor 0, which the kernel holds
\* registered, while descriptor 1 of the same word keeps its bits
C9_Witness ==
    /\ last_call = CondCall("clo", 0, DIR_RD)
    /\ epoll_set[0].reg
    /\ 0 \notin StaticReadEvent \cup PrevReadEvent
    /\ 1 \in StaticReadEvent /\ 1 \in PrevReadEvent

(* ---- C10 ----------------------------------------------------------------- *)

\* the interest the kernel holds for d, as a pair of bits
KernelRead(d) == epoll_set[d].reg /\ EPOLLIN \in epoll_set[d].events
KernelWrite(d) == epoll_set[d].reg /\ EPOLLOUT \in epoll_set[d].events

\* C10: whenever poll reaches the kernel wait and no registration call has
\* failed so far, the previous-interest bits of every descriptor that is not
\* FD_STCLOSE equal the interest the kernel holds for it.
C10_PrevMatchesKernel ==
    (pc = "wait" /\ ~ctl_failed) =>
      \A d \in Fds :
        fdtab[d] # FD_STCLOSE =>
          /\ (d \in PrevReadEvent) <=> KernelRead(d)
          /\ (d \in PrevWriteEvent) <=> KernelWrite(d)

(* ---- C11 ----------------------------------------------------------------- *)

\* C11: when acquisition k of epoll_init fails (k = 1 the epoll object, 2 the
\* event buffer, 3..6 the previous-read, previous-write, desired-read and
\* desired-write bitsets), epoll_init returns 0, the resources acquired by
\* steps 1 .. k-1 are each released once, in the reverse order of their
\* acquisition, each while held, and nothing remains held.
C11_InitFailureCleanup ==
    (life_op.op = "init" /\ life_op.step >= 1) =>
      /\ life_op.ret = 0
      /\ acquired = SubSeq(AcqOrder, 1, life_op.step - 1)
      /\ Len(released) = Len(acquired)
      /\ \A i \in 1 .. Len(released) :
           /\ released[i].res = acquired[Len(acquired) + 1 - i]
           /\ released[i].held
      /\ Held = {}

\* the last acquisition has failed after an earlier epoll_term: the five
\* earlier resources were released
C11_Witness ==
    /\ life_op.op = "init" /\ life_op.step = NSteps
    /\ nlife = 4
    /\ Len(released) = 5
    /\ mem["StaticWriteEvent"] = "NULL"

(* ---- C12 ----------------------------------------------------------------- *)

\* C12: in any state of the poller (after a successful epoll_init, after one
\* that failed at any step, after an earlier epoll_term), epoll_term releases
\* each resource then held exactly once and releases nothing that is not
\* held: no block is freed twice, no descriptor other than the poller's own
\* epoll object is closed.
C12_TermReleasesHeldOnce ==
    life_op.op = "term" =>
      /\ \A i \in 1 .. Len(released) : released[i].held
      /\ \A i, j \in 1 .. Len(released) :
           released[i].res = released[j].res => i = j
      /\ Held = {}

(* ---- C13 ----------------------------------------------------------------- *)

\* C13: epoll_init that returns 0, whatever the step that failed, leaves
\* p->pref at 0; epoll_register sets it to 300; a successful epoll_init
\* keeps it; epoll_term sets it to 0; it is never non-zero unless
\* epoll_register set it and no failed epoll_init or epoll_term followed.
C13_PrefLifecycle ==
    [][nlife' # nlife =>
         /\ (life_op'.op = "init" /\ life_op'.ret = 0) => pref' = 0
         /\ (life_op'.op = "init" /\ life_op'.ret # 0) => pref' = pref
         /\ life_op'.op = "term" => pref' = 0
         /\ life_op'.op = "register" => pref' = 300
         /\ pref' # 0 => /\ pref' = 300
                         /\ life_op'.op = "register" \/ pref = 300
      ]_vars

\* epoll_init has failed at the fourth acquisition of a registered poller
C13_Witness ==
    /\ life_op = [op |-> "init", step |-> 4, ret |-> 0]
    /\ nlife = 2
    /\ pref = 0
    /\ mem["PrevReadEvent"] = "freed"

(* ---- C14 ----------------------------------------------------------------- *)

\* what the caller of epoll_poll can observe once it has returned: the
\* function returns void, so only the state it leaves behind
PollOutcome == << bits, maxfd, fdtab, epoll_set >>

\* C14: a poll whose epoll_wait failed (negative return) leaves its caller
\* with an outcome that differs from that of a poll whose epoll_wait returned
\* no record: the return with no record dispatched changes what the caller
\* observes exactly when the wait had failed.
C14_WaitFailureVisible ==
    [][(pc = "rd" /\ pc' = "idle" /\ count = 0) =>
         ((status < 0) <=> (PollOutcome' # PollOutcome))
      ]_vars

(* ---- C15 ----------------------------------------------------------------- *)

\* C15: when a registration call for some descriptor d failed during the
\* reconciliation of the first poll and no desired interest is changed
\* afterwards (maxfd not lowered either, so that d stays below it), the
\* reconciliation of the next poll sees d as differing again and issues a
\* registration call for it: it does not pass without any call.
C15_MissedSelfCorrects ==
    [][(/\ pc = "idle" /\ pc' = "wait"
        /\ npolls = 1 /\ ctl_failed
        /\ ~dirty /\ maxfd >= last_maxfd)
         => \E i \in 1 .. Len(ctl_calls') : ctl_calls'[i].fd < last_maxfd
      ]_vars

(* ---- C16 ----------------------------------------------------------------- *)

\* C16: a failed registration call does not end the pass.  In a
\* reconciliation where some call fails, every descriptor below maxfd whose
\* desired interest differs from its previous interest (the skipped DEL of a
\* FD_STCLOSE descriptor apart) still gets its one call; the poll then
\* reaches epoll_wait, which it can perform; once some call has failed the
\* dispatch still invokes the callbacks the records call for; epoll_poll is
\* always at one of its four positions and the process is not aborted.
C16_FailureDoesNotAbort ==
    [][/\ (/\ pc = "idle" /\ pc' = "wait"
           /\ \E i \in 1 .. Len(ctl_calls') : ~ctl_calls'[i].ok)
          => \A d \in Fds :
               (/\ d < maxfd
                /\ \/ (d \in StaticReadEvent) # (d \in PrevReadEvent)
                   \/ (d \in StaticWriteEvent) # (d \in PrevWriteEvent)
                /\ \/ fdtab[d] # FD_STCLOSE
                   \/ d \in StaticReadEvent \/ d \in StaticWriteEvent)
               => Len(CallsFor(ctl_calls', d)) = 1
       /\ (pc = "wait" /\ ctl_failed) => (ENABLED EpollWait /\ pc' = "rd")
       /\ (/\ ctl_failed /\ pc = "rd" /\ count < status
           /\ fdtab[cur'.fd] # FD_STCLOSE
           /\ cur'.fd \in StaticReadEvent
           /\ cur'.events \cap {EPOLLIN, EPOLLERR, EPOLLHUP} # {})
          => Invokes(cur'.fd)
       /\ (/\ ctl_failed /\ pc = "wr"
           /\ fdtab[cur.fd] # FD_STCLOSE
           /\ cur.fd \in StaticWriteEvent
           /\ cur.events \cap {EPOLLOUT, EPOLLERR, EPOLLHUP} # {})
          => Invokes(cur.fd)
       /\ pc' \in {"idle", "wait", "rd", "wr"}
       /\ ~crashed'
      ]_vars

\* the call for descriptor 0 failed, and the call for descriptor 2, in the
\* next word, was issued after it and succeeded
C16_Witness ==
    /\ pc = "wait"
    /\ Len(ctl_calls) = 2
    /\ ctl_calls[1].fd = 0 /\ ~ctl_calls[1].ok
    /\ ctl_calls[2].fd = 2 /\ ctl_calls[2].ok
    /\ epoll_set[2].reg /\ ~epoll_set[0].reg

(* ---- C17 ----------------------------------------------------------------- *)

\* descriptors with a desired bit that a callback changed and that is still
\* changed
CbChanged == {b[1] : b \in cb_flipped}

\* during the dispatch no registration call is issued and epoll_poll is not
\* entered again: the epoll set changes only where the owner closes a
\* descriptor
DispatchIssuesNoCall ==
    pc \in {"rd", "wr"} =>
      /\ ctl_calls' = ctl_calls
      /\ npolls' = npolls
      /\ pc' # "wait"
      /\ \A d \in Fds :
           epoll_set'[d] # epoll_set[d] =>
             (fdtab'[d] = FD_STCLOSE /\ epoll_set'[d] = NoReg)

C19_KernelProtocol ==
    [][(pc = "idle" /\ pc' = "wait" /\ strict /\ ~ctl_failed) =>
         \A i \in 1 .. Len(ctl_calls') :
           (ctl_calls'[i].op = EPOLL_CTL_ADD)
             <=> ~epoll_set[ctl_calls'[i].fd].reg
      ]_vars

(* ---- C20 ----------------------------------------------------------------- *)

\* the reconciliation just done has changed a previous bit of d
PrevChanged(d) ==
    \/ (d \in PrevReadEvent) # (d \in pre.pr)
    \/ (d \in PrevWriteEvent) # (d \in pre.pw)

\* C20: a reconciliation changes a previous bit of descriptor d only if it
\* issued a registration call for d, or skipped the DEL of d because d is
\* FD_STCLOSE; a desired bit of a descriptor at or above maxfd is not copied
\* into the previous bitset.
C20_PrevChangesWithDecision ==
    pc = "wait" =>
      \A d \in Fds :
        PrevChanged(d) =>
          \/ CallsFor(ctl_calls, d) # << >>
          \/ /\ d < maxfd /\ fdtab[d] = FD_STCLOSE
             /\ HadInterest(d) /\ ~WantsInterest(d)

====
